---- MODULE Spec2Model ----
(***************************************************************************)
(* BitBucketRepositoryProvider                                             *)
(* (package_control/providers/bitbucket_repository_provider.py).           *)
(*                                                                         *)
(* One provider instance (repo, settings, cache) driven by its caller      *)
(* through prefetch, get_packages, get_renamed_packages and                *)
(* get_unavailable_packages, with the BitBucketClient collaborator as an   *)
(* environment that answers repo_info and download_info; and the class     *)
(* method match_url as a function of a character sequence.                 *)
(*                                                                         *)
(* Python values are tagged with their type: False, None, a dict (a        *)
(* function from keys to values) and a list (a sequence).  The leaves of   *)
(* the client's dicts are strings; a leaf that is None is NoneLeaf.        *)
(***************************************************************************)
EXTENDS Integers, Sequences, FiniteSets, TLC

VARIABLES
    repo,            \* self.repo
    settings,        \* self.settings
    cache,           \* self.cache: a dict, here a function on a set of keys
    repoInfoCalls,   \* client.repo_info calls received over the instance's life
    downloadInfoCalls, \* client.download_info calls received
    last,            \* the last operation: its arguments, outcome, client calls
    prevGP,          \* outcome of the latest get_packages call before the last operation
    firstGP,         \* how the first get_packages invocation went
    url,             \* match_url: the argument
    matched          \* match_url: the value returned for url

vars == <<repo, settings, cache, repoInfoCalls, downloadInfoCalls, last,
          prevGP, firstGP, url, matched>>

---------------------------------------------------------------------------
(* Bounds *)

\* get_packages and prefetch are offered while the client has received fewer
\* than this many repo_info calls.
MaxClientCalls == 3
\* valid_sources lists have at most this many elements.
MaxSources == 1
\* match_url inputs: characters following the prefix.
MaxTail == 5

---------------------------------------------------------------------------
(* Python values *)

False == [type |-> "bool"]
None == [type |-> "NoneType"]
Dict(f) == [type |-> "dict", val |-> f]
List(s) == [type |-> "list", val |-> s]
NoneLeaf == "<None>"

EmptyMap == [k \in {} |-> NoneLeaf]

\* `x == False` / `x != None` on the values that occur here
IsFalse(v) == v.type = "bool"
IsNone(v) == v.type = "NoneType"

\* `x in lst`
InList(x, lst) == \E i \in 1..Len(lst.val) : lst.val[i] = x

\* d[k] = v on a dict held as a function
DictSet(d, k, v) == [x \in (DOMAIN d) \cup {k} |-> IF x = k THEN v ELSE d[x]]

\* The exception `v[k]` raises, "" when it raises none.
SubscriptError(v, k) ==
    IF v.type # "dict" THEN "TypeError"
    ELSE IF k \notin DOMAIN v.val THEN "KeyError"
    ELSE ""

\* The exception `v.get(k)` raises, "" when it raises none.
GetError(v) == IF v.type # "dict" THEN "AttributeError" ELSE ""

\* download.get('date'): the value, None when the key is absent
DictGet(d, k) == IF k \in DOMAIN d THEN d[k] ELSE NoneLeaf

---------------------------------------------------------------------------
(* The instance's inputs and the client's possible answers *)

Repos == {"https://bitbucket.org/alice/widget", "https://bitbucket.org/bob/gadget"}
Urls == Repos \cup {"https://bitbucket.org/eve/other"}

SettingsSet ==
    { [cache_length |-> "300", debug |-> "False", timeout |-> "3", user_agent |-> "PC"],
      [cache_length |-> "300", debug |-> "True", timeout |-> "3", user_agent |-> "PC"] }

RepoInfoKeys ==
    {"name", "description", "homepage", "author", "readme", "issues", "donate"}

FullRepoInfos ==
    { [name |-> "Widget", description |-> "d", homepage |-> "h", author |-> "alice",
       readme |-> "r", issues |-> "i", donate |-> "don"],
      [name |-> "Gadget", description |-> "g", homepage |-> "h2", author |-> "bob",
       readme |-> "r2", issues |-> NoneLeaf, donate |-> NoneLeaf] }

\* a repo_info answer lacking one key
Without(d, k) == [x \in (DOMAIN d) \ {k} |-> d[x]]
MalformedRepoInfos ==
    { Without([name |-> "Widget", description |-> "d", homepage |-> "h",
               author |-> "alice", readme |-> "r", issues |-> "i", donate |-> "don"], k)
        : k \in RepoInfoKeys }

\* what client.repo_info may return
RepoInfoOutcomes ==
    {False} \cup {Dict(d) : d \in FullRepoInfos} \cup {Dict(d) : d \in MalformedRepoInfos}

\* what client.download_info may return
DownloadInfoOutcomes ==
    { False,
      Dict([url |-> "u", date |-> "2020-01-01", version |-> "1.0"]),
      Dict([url |-> "u", version |-> "1.0"]) }

RECURSIVE SeqsUpTo(_, _)
SeqsUpTo(S, n) ==
    IF n = 0 THEN {<< >>}
    ELSE LET shorter == SeqsUpTo(S, n - 1)
         IN  shorter \cup {Append(s, x) : s \in shorter, x \in S}

\* the valid_sources arguments: None (the default) or a list of URLs
ValidSourcesArgs == {None} \cup {List(s) : s \in SeqsUpTo(Urls, MaxSources)}

---------------------------------------------------------------------------
(* get_packages *)

\* mutant of CacheHit: the memoized value is never looked up
CacheHit_Never(c) == FALSE

\* line 81: 'get_packages' in self.cache
CacheHit(c) == "get_packages" \in DOMAIN c

\* mutant of Rejected: valid_sources is ignored
Rejected_IgnoresWhitelist(r, valid_sources) == FALSE

\* line 86: valid_sources != None and self.repo not in valid_sources
Rejected(r, valid_sources) == ~IsNone(valid_sources) /\ ~InList(r, valid_sources)

\* mutant of RepoInfoFailed: the repo_info answer is not tested
RepoInfoFailed_Never(repo_info) == FALSE

\* line 91: repo_info == False
RepoInfoFailed(repo_info) == IsFalse(repo_info)

\* mutant of DownloadFailed: the download_info answer is not tested
DownloadFailed_Never(download) == FALSE

\* line 96: download == False
DownloadFailed(download) == IsFalse(download)

\* lines 100-113: the subscripts and the .get in the order Python evaluates
\* them; the exception the first failing one raises, "" when none does.
RecordAccesses ==
    << "name", "name", "description", "homepage", "author", ".get",
       "readme", "issues", "donate" >>

RECURSIVE BuildErrorFrom(_, _, _)
BuildErrorFrom(repo_info, download, i) ==
    IF i > Len(RecordAccesses) THEN ""
    ELSE LET e == IF RecordAccesses[i] = ".get" THEN GetError(download)
                  ELSE SubscriptError(repo_info, RecordAccesses[i])
         IN  IF e # "" THEN e ELSE BuildErrorFrom(repo_info, download, i + 1)

BuildError(repo_info, download) == BuildErrorFrom(repo_info, download, 1)

\* mutant of BuildRecord: 'sources' is left empty
BuildRecord_NoSources(r, repo_info, download) ==
    Dict( [ k \in {repo_info.val.name} |->
              [ name |-> repo_info.val.name,
                description |-> repo_info.val.description,
                homepage |-> repo_info.val.homepage,
                author |-> repo_info.val.author,
                last_modified |-> DictGet(download.val, "date"),
                download |-> download,
                previous_names |-> << >>,
                labels |-> << >>,
                sources |-> << >>,
                readme |-> repo_info.val.readme,
                issues |-> repo_info.val.issues,
                donate |-> repo_info.val.donate ] ] )

\* lines 100-113: the dict stored under 'get_packages'
BuildRecord(r, repo_info, download) ==
    Dict( [ k \in {repo_info.val.name} |->
              [ name |-> repo_info.val.name,
                description |-> repo_info.val.description,
                homepage |-> repo_info.val.homepage,
                author |-> repo_info.val.author,
                last_modified |-> DictGet(download.val, "date"),
                download |-> download,
                previous_names |-> << >>,
                labels |-> << >>,
                sources |-> <<r>>,
                readme |-> repo_info.val.readme,
                issues |-> repo_info.val.issues,
                donate |-> repo_info.val.donate ] ] )

\* one call received by the client built from self.settings (line 84)
ClientCall(fn, s, arg, result) ==
    [fn |-> fn, settings |-> s, arg |-> arg, result |-> result]

Returned(c, calls, value) ==
    [cache |-> c, calls |-> calls, outcome |-> "return", ret |-> value, exc |-> ""]
Raised(c, calls, e) ==
    [cache |-> c, calls |-> calls, outcome |-> "raise", ret |-> None, exc |-> e]

\* lines 81-114.  repo_info and download are what the client answers if asked.
get_packages(c, r, s, valid_sources, repo_info, download) ==
    IF CacheHit(c) THEN Returned(c, << >>, c["get_packages"])
    ELSE IF Rejected(r, valid_sources)
    THEN Returned(DictSet(c, "get_packages", False), << >>, False)
    ELSE LET c1 == << ClientCall("repo_info", s, r, repo_info) >> IN
    IF RepoInfoFailed(repo_info)
    THEN Returned(DictSet(c, "get_packages", False), c1, False)
    ELSE LET c2 == Append(c1, ClientCall("download_info", s, r, download)) IN
    IF DownloadFailed(download)
    THEN Returned(DictSet(c, "get_packages", False), c2, False)
    ELSE IF BuildError(repo_info, download) # ""
    THEN Raised(c, c2, BuildError(repo_info, download))
    ELSE LET c3 == DictSet(c, "get_packages", BuildRecord(r, repo_info, download))
         IN  Returned(c3, c2, c3["get_packages"])

\* mutant of get_renamed_packages: an empty list instead of an empty dict
get_renamed_packages_List == List(<< >>)

\* lines 116-119
get_renamed_packages == Dict(EmptyMap)

\* lines 121-129
get_unavailable_packages == List(<< >>)

CountCalls(calls, fn) == Cardinality({i \in 1..Len(calls) : calls[i].fn = fn})

\* how the first invocation of get_packages went
FirstKind(c, r, valid_sources) ==
    IF ~CacheHit(c) /\ Rejected(r, valid_sources) THEN "rejected" ELSE "other"

---------------------------------------------------------------------------
(* The instance as a state machine *)

NoOutcome == [outcome |-> "none", ret |-> None]

\* prevGP after one more operation: the last operation's outcome if it was a
\* get_packages call
ShiftGP == IF last.op = "get_packages"
           THEN [outcome |-> last.outcome, ret |-> last.ret]
           ELSE prevGP

\* lines 31-34: __init__(repo, settings)
Init ==
    /\ repo \in Repos
    /\ settings \in SettingsSet
    /\ cache = EmptyMap
    /\ repoInfoCalls = 0
    /\ downloadInfoCalls = 0
    /\ last = [op |-> "__init__", valid_sources |-> None, outcome |-> "return",
               ret |-> None, exc |-> "", calls |-> << >>, cacheBefore |-> EmptyMap]
    /\ prevGP = NoOutcome
    /\ firstGP = "none"
    /\ url = << >>
    /\ matched = "unset"

\* lines 49-114: get_packages(valid_sources)
GetPackages ==
    /\ repoInfoCalls < MaxClientCalls
    /\ \E valid_sources \in ValidSourcesArgs, repo_info \in RepoInfoOutcomes,
          download \in DownloadInfoOutcomes :
         LET res == get_packages(cache, repo, settings, valid_sources, repo_info, download)
         IN  /\ cache' = res.cache
             /\ repoInfoCalls' = repoInfoCalls + CountCalls(res.calls, "repo_info")
             /\ downloadInfoCalls' = downloadInfoCalls + CountCalls(res.calls, "download_info")
             /\ last' = [op |-> "get_packages", valid_sources |-> valid_sources,
                         outcome |-> res.outcome, ret |-> res.ret, exc |-> res.exc,
                         calls |-> res.calls, cacheBefore |-> cache]
             /\ prevGP' = ShiftGP
             /\ firstGP' = IF firstGP = "none" THEN FirstKind(cache, repo, valid_sources)
                           ELSE firstGP
    /\ UNCHANGED <<repo, settings, url, matched>>

\* lines 42-47: prefetch() calls self.get_packages() and returns None; an
\* exception of get_packages propagates.
Prefetch ==
    /\ repoInfoCalls < MaxClientCalls
    /\ \E repo_info \in RepoInfoOutcomes, download \in DownloadInfoOutcomes :
         LET res == get_packages(cache, repo, settings, None, repo_info, download)
         IN  /\ cache' = res.cache
             /\ repoInfoCalls' = repoInfoCalls + CountCalls(res.calls, "repo_info")
             /\ downloadInfoCalls' = downloadInfoCalls + CountCalls(res.calls, "download_info")
             /\ last' = [op |-> "prefetch", valid_sources |-> None,
                         outcome |-> res.outcome, ret |-> None, exc |-> res.exc,
                         calls |-> res.calls, cacheBefore |-> cache]
             /\ prevGP' = ShiftGP
             /\ firstGP' = IF firstGP = "none" THEN FirstKind(cache, repo, None)
                           ELSE firstGP
    /\ UNCHANGED <<repo, settings, url, matched>>

\* lines 116-119: get_renamed_packages()
GetRenamedPackages ==
    /\ last' = [op |-> "get_renamed_packages", valid_sources |-> None,
                outcome |-> "return", ret |-> get_renamed_packages, exc |-> "",
                calls |-> << >>, cacheBefore |-> cache]
    /\ prevGP' = ShiftGP
    /\ UNCHANGED <<repo, settings, cache, repoInfoCalls, downloadInfoCalls,
                   firstGP, url, matched>>

\* lines 121-129: get_unavailable_packages()
GetUnavailablePackages ==
    /\ last' = [op |-> "get_unavailable_packages", valid_sources |-> None,
                outcome |-> "return", ret |-> get_unavailable_packages, exc |-> "",
                calls |-> << >>, cacheBefore |-> cache]
    /\ prevGP' = ShiftGP
    /\ UNCHANGED <<repo, settings, cache, repoInfoCalls, downloadInfoCalls,
                   firstGP, url, matched>>

Next ==
    \/ GetPackages
    \/ Prefetch
    \/ GetRenamedPackages
    \/ GetUnavailablePackages

Spec == Init /\ [][Next]_vars

---------------------------------------------------------------------------
(* match_url: re.search('^https?://bitbucket.org/([^/]+/[^/]+)/?$', repo)   *)
(* A string is a sequence of one-character strings.                        *)

Lit(c) == [kind |-> "lit", ch |-> c]        \* the character c
Opt(c) == [kind |-> "opt", ch |-> c]        \* c?
Dot == [kind |-> "dot", ch |-> ""]          \* . : any character but a newline
NotSlashPlus == [kind |-> "notslash+", ch |-> ""]   \* [^/]+
EndAnchor == [kind |-> "end", ch |-> ""]    \* $ : the end, or before a final newline

Lits(str) == [i \in 1..Len(str) |-> Lit(str[i])]

Http == <<"h", "t", "t", "p">>
SchemeSep == <<":", "/", "/">>
Bitbucket == <<"b", "i", "t", "b", "u", "c", "k", "e", "t">>
Org == <<"o", "r", "g">>

\* line 40: the pattern, token by token; the leading ^ anchors the search at
\* the first character.
Pattern ==
    Lits(Http) \o <<Opt("s")>> \o Lits(SchemeSep) \o Lits(Bitbucket) \o <<Dot>>
      \o Lits(Org) \o <<Lit("/"), NotSlashPlus, Lit("/"), NotSlashPlus, Opt("/"),
                        EndAnchor>>

\* The positions (index of the next character to read) the matcher can be at
\* after token tok, having been at one of the positions P before it.
StepLit(str, c, P) == {i + 1 : i \in {j \in P : j <= Len(str) /\ str[j] = c}}
Step(str, tok, P) ==
    IF tok.kind = "lit" THEN StepLit(str, tok.ch, P)
    ELSE IF tok.kind = "opt" THEN P \cup StepLit(str, tok.ch, P)
    ELSE IF tok.kind = "dot"
    THEN {i + 1 : i \in {j \in P : j <= Len(str) /\ str[j] # "\n"}}
    ELSE IF tok.kind = "notslash+"
    THEN {j \in 2..(Len(str) + 1) :
            \E i \in P : i < j /\ \A k \in i..(j - 1) : str[k] # "/"}
    ELSE {i \in P : i = Len(str) + 1 \/ (i = Len(str) /\ str[i] = "\n")}

RECURSIVE Run(_, _, _, _)
Run(str, pat, k, P) ==
    IF k > Len(pat) THEN P ELSE Run(str, pat, k + 1, Step(str, pat[k], P))

\* lines 36-40: match_url(repo)
match_url(str) == Run(str, Pattern, 1, {1}) # {}

\* The URLs match_url is applied to: a prefix followed by up to MaxTail
\* characters.
Prefixes ==
    { Http \o <<"s">> \o SchemeSep \o Bitbucket \o <<".">> \o Org \o <<"/">>,
      Http \o SchemeSep \o Bitbucket \o <<".">> \o Org \o <<"/">>,
      Http \o <<"s">> \o SchemeSep \o Bitbucket \o <<".">> \o Org,
      Bitbucket \o <<".">> \o Org \o <<"/">>,
      Http \o <<"s", "s">> \o SchemeSep \o Bitbucket \o <<".">> \o Org \o <<"/">>,
      <<"x">> \o Http \o SchemeSep \o Bitbucket \o <<".">> \o Org \o <<"/">>,
      <<"f", "t", "p">> \o SchemeSep \o Bitbucket \o <<".">> \o Org \o <<"/">>,
      Http \o <<"s">> \o SchemeSep \o Bitbucket \o <<"X">> \o Org \o <<"/">>,
      Http \o <<"s">> \o SchemeSep \o Bitbucket \o <<"\n">> \o Org \o <<"/">>,
      Http \o <<"s">> \o SchemeSep \o <<"w", "w", "w", ".">> \o Bitbucket \o <<".">> \o Org \o <<"/">>,
      Http \o <<"s">> \o SchemeSep \o <<"g", "i", "t", "h", "u", "b", ".", "c", "o", "m", "/">> }
TailAlphabet == {"a", "/", "\n"}
MatchInputs == {p \o t : p \in Prefixes, t \in SeqsUpTo(TailAlphabet, MaxTail)}

InitMatch ==
    /\ repo \in Repos
    /\ settings \in SettingsSet
    /\ cache = EmptyMap
    /\ repoInfoCalls = 0
    /\ downloadInfoCalls = 0
    /\ last = [op |-> "__init__", valid_sources |-> None, outcome |-> "return",
               ret |-> None, exc |-> "", calls |-> << >>, cacheBefore |-> EmptyMap]
    /\ prevGP = NoOutcome
    /\ firstGP = "none"
    /\ url \in MatchInputs
    /\ matched = "unset"

\* a call match_url(url)
MatchUrl ==
    /\ matched = "unset"
    /\ matched' = IF match_url(url) THEN "True" ELSE "False"
    /\ UNCHANGED <<repo, settings, cache, repoInfoCalls, downloadInfoCalls, last,
                   prevGP, firstGP, url>>

NextMatch == MatchUrl

SpecMatch == InitMatch /\ [][NextMatch]_vars

---------------------------------------------------------------------------
(* Properties *)

IsGP == last.op = "get_packages"
\* a value is stored under 'get_packages'
Memoized(c) == "get_packages" \in DOMAIN c
\* valid_sources was supplied and self.repo is not one of its elements
Excludes(valid_sources, r) ==
    /\ valid_sources.type = "list"
    /\ \A i \in 1..Len(valid_sources.val) : valid_sources.val[i] # r
IsFetch == last.op \in {"get_packages", "prefetch"}

\* the record the documentation of get_packages describes, written out from
\* the client's two answers
IsRecordOf(v, r, repo_info, download) ==
    /\ v.type = "dict"
    /\ DOMAIN v.val = {repo_info.name}
    /\ LET rec == v.val[repo_info.name] IN
        /\ DOMAIN rec = {"name", "description", "homepage", "author", "last_modified",
                         "download", "previous_names", "labels", "sources",
                         "readme", "issues", "donate"}
        /\ \A k \in RepoInfoKeys : rec[k] = repo_info[k]
        /\ rec.download = Dict(download)
        /\ rec.last_modified =
             (IF "date" \in DOMAIN download THEN download["date"] ELSE NoneLeaf)
        /\ rec.previous_names = << >>
        /\ rec.labels = << >>
        /\ rec.sources = <<r>>

\* a client answer that is a dict with every key of the client's contract
CompleteRepoInfo(v) == v.type = "dict" /\ RepoInfoKeys \subseteq DOMAIN v.val

\* C1: of two consecutive get_packages calls, both return, the second returns
\* the value the first returned, and the second makes no client call.
C1_SecondCallIdentical ==
    (IsGP /\ prevGP.outcome # "none") =>
        /\ prevGP.outcome = "return"
        /\ last.outcome = "return"
        /\ last.ret = prevGP.ret
        /\ last.calls = << >>

\* C2 (as claimed): a get_packages call whose valid_sources excludes self.repo
\* returns False and makes no client call, whatever the instance's state.
C2_RejectedReturnsFalse ==
    (IsGP /\ Excludes(last.valid_sources, repo)) =>
        /\ last.outcome = "return"
        /\ last.ret = False
        /\ last.calls = << >>

\* C2 (amended): a get_packages call whose valid_sources excludes self.repo
\* makes no client call and returns False, unless a value was memoized before
\* the call, and then it returns that value (which may be a record).
C2_RejectedNoClientCall ==
    (IsGP /\ Excludes(last.valid_sources, repo)) =>
        /\ last.outcome = "return"
        /\ last.calls = << >>
        /\ last.ret = (IF Memoized(last.cacheBefore)
                       THEN last.cacheBefore["get_packages"] ELSE False)
        /\ Memoized(cache)
        /\ cache["get_packages"] = last.ret

C2_Witness ==
    /\ IsGP
    /\ Excludes(last.valid_sources, repo)
    /\ Memoized(last.cacheBefore)
    /\ last.cacheBefore["get_packages"].type = "dict"
    /\ last.ret.type = "dict"

\* C3: the client calls of one get_packages are repo_info, then download_info
\* only after repo_info answered something other than False; when repo_info
\* answers False the call returns False, memoizes it and makes no
\* download_info call.
C3_RepoInfoFirst ==
    IsFetch =>
        /\ Len(last.calls) <= 2
        /\ Len(last.calls) >= 1 => last.calls[1].fn = "repo_info" /\ last.calls[1].arg = repo
        /\ Len(last.calls) = 2 =>
             /\ last.calls[2].fn = "download_info"
             /\ ~IsFalse(last.calls[1].result)
        /\ (Len(last.calls) >= 1 /\ IsFalse(last.calls[1].result)) =>
             /\ Len(last.calls) = 1
             /\ last.outcome = "return"
             /\ IsGP => last.ret = False
             /\ Memoized(cache)
             /\ cache["get_packages"] = False

C3_Witness ==
    /\ IsGP
    /\ last.cacheBefore = EmptyMap
    /\ Len(last.calls) = 1
    /\ IsFalse(last.calls[1].result)
    /\ last.ret = False

\* C4: when repo_info answers a complete dict and download_info a dict, the
\* call returns the single-entry mapping keyed by repo_info's name with the
\* documented record, and memoizes it.
C4_RecordOnSuccess ==
    (/\ IsGP
     /\ Len(last.calls) = 2
     /\ CompleteRepoInfo(last.calls[1].result)
     /\ last.calls[2].result.type = "dict") =>
        /\ last.outcome = "return"
        /\ IsRecordOf(last.ret, repo, last.calls[1].result.val, last.calls[2].result.val)
        /\ Memoized(cache)
        /\ cache["get_packages"] = last.ret

C4_Witness ==
    /\ IsGP
    /\ Len(last.calls) = 2
    /\ CompleteRepoInfo(last.calls[1].result)
    /\ last.calls[2].result.type = "dict"
    /\ "date" \notin DOMAIN last.calls[2].result.val
    /\ last.ret.type = "dict"
    /\ last.ret.val[last.calls[1].result.val.name].last_modified = NoneLeaf

\* the call met a failure: a rejected source, a client answer False, or a
\* repo_info answer lacking a key
MetFailure ==
    /\ ~Memoized(last.cacheBefore)
    /\ \/ Excludes(last.valid_sources, repo)
       \/ \E i \in 1..Len(last.calls) :
            \/ IsFalse(last.calls[i].result)
            \/ last.calls[i].fn = "repo_info" /\ ~CompleteRepoInfo(last.calls[i].result)

\* C5: get_packages and prefetch never raise; a call that meets a failure
\* returns False and memoizes it, and a call on a memoized failure makes no
\* client call.
C5_NeverRaises ==
    IsFetch =>
        /\ last.outcome = "return"
        /\ MetFailure =>
             /\ IsGP => last.ret = False
             /\ Memoized(cache)
             /\ cache["get_packages"] = False
        /\ Memoized(last.cacheBefore) => last.calls = << >>

\* C7: get_renamed_packages returns an empty mapping and
\* get_unavailable_packages an empty sequence, and a step of either leaves the
\* cache, repo, settings and the client's call counts as they were.
C7_StubsPure ==
    [][ (last'.op \in {"get_renamed_packages", "get_unavailable_packages"}) =>
          /\ last'.outcome = "return"
          /\ last'.op = "get_renamed_packages" => last'.ret = Dict(EmptyMap)
          /\ last'.op = "get_unavailable_packages" => last'.ret = List(<< >>)
          /\ last'.calls = << >>
          /\ cache' = cache
          /\ repo' = repo
          /\ settings' = settings
          /\ repoInfoCalls' = repoInfoCalls
          /\ downloadInfoCalls' = downloadInfoCalls ]_vars

C7_Witness ==
    /\ last.op = "get_renamed_packages"
    /\ Memoized(cache)
    /\ cache["get_packages"].type = "dict"
    /\ last.ret = Dict(EmptyMap)

\* C8: the memoized value and every value get_packages returns is False or a
\* complete record; a record is memoized only by a call whose repo_info and
\* download_info both answered dicts; when download_info answers False the
\* call returns False and memoizes it; a call on a populated cache makes no
\* client call.
C8_AllOrNothing ==
    /\ Memoized(cache) =>
         \/ cache["get_packages"] = False
         \/ \E ri \in FullRepoInfos, dl \in DownloadInfoOutcomes :
              dl.type = "dict" /\ IsRecordOf(cache["get_packages"], repo, ri, dl.val)
    /\ (IsGP /\ last.outcome = "return") =>
         Memoized(cache) /\ cache["get_packages"] = last.ret
    /\ (IsFetch /\ ~Memoized(last.cacheBefore) /\ Memoized(cache)
          /\ cache["get_packages"] # False) =>
         /\ Len(last.calls) = 2
         /\ IsRecordOf(cache["get_packages"], repo,
                       last.calls[1].result.val, last.calls[2].result.val)
    /\ (IsFetch /\ Len(last.calls) = 2 /\ IsFalse(last.calls[2].result)) =>
         /\ last.outcome = "return"
         /\ IsGP => last.ret = False
         /\ Memoized(cache)
         /\ cache["get_packages"] = False
    /\ (IsFetch /\ Memoized(last.cacheBefore)) => last.calls = << >>

C8_Witness ==
    /\ IsGP
    /\ Len(last.calls) = 2
    /\ CompleteRepoInfo(last.calls[1].result)
    /\ IsFalse(last.calls[2].result)
    /\ cache["get_packages"] = False

\* C9: the key 'get_packages' is set at most once and its value never changes
\* afterwards, no other key is added, and the client receives at most one
\* repo_info and at most one download_info call.
C9_WriteOnce ==
    [][ /\ DOMAIN cache' \subseteq {"get_packages"}
        /\ Memoized(cache) => cache' = cache
        /\ repoInfoCalls' <= 1
        /\ downloadInfoCalls' <= 1 ]_vars

\* C10: once the first get_packages invocation was rejected by valid_sources,
\* False stays memoized, every later get_packages returns False, every later
\* prefetch returns, and the client is never called.
C10_RejectionSticky ==
    firstGP = "rejected" =>
        /\ Memoized(cache)
        /\ cache["get_packages"] = False
        /\ repoInfoCalls = 0
        /\ downloadInfoCalls = 0
        /\ IsFetch => last.outcome = "return" /\ last.calls = << >>
        /\ IsGP => last.ret = False

C10_Witness ==
    /\ firstGP = "rejected"
    /\ IsGP
    /\ Memoized(last.cacheBefore)
    /\ \/ IsNone(last.valid_sources)
       \/ ~Excludes(last.valid_sources, repo)
    /\ last.ret = False

\* the form of URL match_url is documented to accept:
\* http(s)://bitbucket.org/<owner>/<name> with an optional trailing slash
SlashCount(str) == Cardinality({i \in 1..Len(str) : str[i] = "/"})
OwnerSlashName(str) ==
    /\ Len(str) >= 3
    /\ SlashCount(str) = 1
    /\ str[1] # "/"
    /\ str[Len(str)] # "/"
HasPrefix(str, pre) == Len(str) >= Len(pre) /\ SubSeq(str, 1, Len(pre)) = pre
DocumentedForm(str) ==
    \E scheme \in {Http, Http \o <<"s">>} :
      LET pre == scheme \o SchemeSep \o Bitbucket \o <<".">> \o Org \o <<"/">>
          rest == SubSeq(str, Len(pre) + 1, Len(str))
      IN  /\ HasPrefix(str, pre)
          /\ \/ OwnerSlashName(rest)
             \/ /\ Len(rest) >= 1
                /\ rest[Len(rest)] = "/"
                /\ OwnerSlashName(SubSeq(rest, 1, Len(rest) - 1))

\* C6: match_url(repo) is true exactly for the URLs of the documented form.
C6_MatchIffDocumentedForm ==
    matched # "unset" => ((matched = "True") <=> DocumentedForm(url))

====
